---------------------------- MODULE Spec2Model ----------------------------
(***************************************************************************)
(* Pivot trading system: the position ledger (PositionManager), the exit   *)
(* evaluator (SignalGenerator.check_exit_conditions), the daily scheduler  *)
(* (PivotTradingSystem.run / trading_loop / end_of_day_cleanup) and the    *)
(* operator's control record (TradingBotCommands).                         *)
(*                                                                         *)
(* Times of day are minutes since midnight; prices are small integers.     *)
(***************************************************************************)
EXTENDS Integers, Sequences, FiniteSets, TLC

VARIABLES
    pc,              \* where the core is: "run", "trading", "eod", "exited", or a unit-spec tag
    day,             \* calendar day index
    clock,           \* minutes since midnight, as datetime.now() reads it
    pre_market_done, \* local flag of run()
    trading_done,    \* local flag of run()
    control,         \* self.control of the core (last loaded control record)
    position_mgr,    \* self.position_mgr: None or the PositionManager's fields
    pivot_data,      \* per option type of the ATM strike: are pivots/structure stored
    candle_count,    \* self.candle_count
    controlFile,     \* content of data/trading_control.json
    opControl,       \* self.control of the operator's bot process
    opPc,            \* operator's position inside save_control_state
    obs,             \* what the last step did (calls made, outcomes): observation only
    authToday,       \* observation: authenticate() succeeded on the current day
    preToday,        \* observation: pre_market_setup() succeeded on the current day
    opLast,          \* observation: last record the operator finished writing
    exitIn,          \* inputs of check_exit_conditions (unit specification)
    exitOut,         \* its result
    unitIn,          \* inputs of the function under check (unit specifications)
    unitOut,         \* its result
    running,         \* self.running, the flag trading_loop tests
    token_file,      \* content of the AuthManager's token file
    server,          \* AuthenticationServer: self.request_token, self.token_timestamp
    handler,         \* the server's request threads: where they are, what they read
    client           \* the core's wait_for_request_token: current login, poll, result

vars == <<pc, day, clock, pre_market_done, trading_done, control, position_mgr,
          pivot_data, candle_count, controlFile, opControl, opPc, obs,
          authToday, preToday, opLast, exitIn, exitOut, unitIn, unitOut,
          running, token_file, server, handler, client>>

----------------------------------------------------------------------------
(* Bounds of the model *)

MaxPrice == 4
MaxTrades == 3
MaxDay == 2

Prices == 1..MaxPrice
OptionTypes == {"CE", "PE"}
None == [tag |-> "None"]

----------------------------------------------------------------------------
(* Configuration values (config['trading'], config['market']) *)

max_re_entries == 1
max_candles_timeout == 10
market_start == 555
market_end == 930
eod_exit_time == 915

----------------------------------------------------------------------------
(* PositionManager *)

NewPositionManager(today) ==
    [position |-> None, stop_loss_count |-> 0, trade_counter |-> 0, today_date |-> today]

has_position(pm) == pm.position # None

can_re_enter_loose(pm) == pm.stop_loss_count <= max_re_entries + 1

can_re_enter(pm) == pm.stop_loss_count <= max_re_entries

\* (variant: the counter is read but not advanced)
generate_trade_id_reused(pm) ==
    [pm |-> pm, id |-> <<pm.today_date, pm.trade_counter + 1>>]

\* generate_trade_id: the counter after the increment, and the id built from it
generate_trade_id(pm) ==
    [pm |-> [pm EXCEPT !.trade_counter = @ + 1],
     id |-> <<pm.today_date, pm.trade_counter + 1>>]

PositionOf(g, signal) ==
    [trade_id        |-> g.id,
     option_type     |-> signal.option_type,
     entry_price     |-> signal.entry_price,
     stop_loss       |-> signal.stop_loss,
     target          |-> signal.target,
     scenario        |-> signal.scenario,
     is_first_candle |-> signal.is_first_candle,
     candles_held    |-> 0]

\* mutant: the has_position() guard is missing
open_position_unguarded(pm, signal) ==
    LET g == generate_trade_id(pm)
    IN  [pm |-> [g.pm EXCEPT !.position = PositionOf(g, signal)], raised |-> FALSE]

\* open_position: raises when a position exists, else allocates an id and stores the position
open_position(pm, signal) ==
    IF has_position(pm)
    THEN [pm |-> pm, raised |-> TRUE]
    ELSE LET g == generate_trade_id(pm)
         IN  [pm |-> [g.pm EXCEPT !.position = PositionOf(g, signal)], raised |-> FALSE]

update_position(pm, n) ==
    IF has_position(pm) THEN [pm EXCEPT !.position.candles_held = n] ELSE pm

\* mutant: every close counts as a stop loss
close_position_counts_all(pm, exit_price, exit_reason) ==
    IF ~has_position(pm)
    THEN [pm |-> pm, raised |-> TRUE, result |-> None]
    ELSE [pm |-> [pm EXCEPT !.position = None, !.stop_loss_count = @ + 1],
          raised |-> FALSE,
          result |-> [trade_id |-> pm.position.trade_id,
                      exit_price |-> exit_price,
                      exit_reason |-> exit_reason,
                      pnl_points |-> exit_price - pm.position.entry_price]]

\* (variant: closes with reason TARGET are counted as well)
close_position_counts_target(pm, exit_price, exit_reason) ==
    IF ~has_position(pm)
    THEN [pm |-> pm, raised |-> TRUE, result |-> None]
    ELSE [pm |-> [pm EXCEPT !.position = None,
                            !.stop_loss_count =
                                IF exit_reason \in {"STOP_LOSS", "TARGET"} THEN @ + 1 ELSE @],
          raised |-> FALSE,
          result |-> [trade_id |-> pm.position.trade_id,
                      exit_price |-> exit_price,
                      exit_reason |-> exit_reason,
                      pnl_points |-> exit_price - pm.position.entry_price]]

\* (variant: a close of the empty ledger returns quietly and still counts)
close_position_lenient(pm, exit_price, exit_reason) ==
    IF ~has_position(pm)
    THEN [pm |-> [pm EXCEPT !.stop_loss_count =
                                IF exit_reason = "STOP_LOSS" THEN @ + 1 ELSE @],
          raised |-> FALSE, result |-> None]
    ELSE [pm |-> [pm EXCEPT !.position = None,
                            !.stop_loss_count =
                                IF exit_reason = "STOP_LOSS" THEN @ + 1 ELSE @],
          raised |-> FALSE,
          result |-> [trade_id |-> pm.position.trade_id,
                      exit_price |-> exit_price,
                      exit_reason |-> exit_reason,
                      pnl_points |-> exit_price - pm.position.entry_price]]

\* close_position: raises when empty; counts the close when the reason is STOP_LOSS
close_position(pm, exit_price, exit_reason) ==
    IF ~has_position(pm)
    THEN [pm |-> pm, raised |-> TRUE, result |-> None]
    ELSE [pm |-> [pm EXCEPT !.position = None,
                            !.stop_loss_count =
                                IF exit_reason = "STOP_LOSS" THEN @ + 1 ELSE @],
          raised |-> FALSE,
          result |-> [trade_id |-> pm.position.trade_id,
                      exit_price |-> exit_price,
                      exit_reason |-> exit_reason,
                      pnl_points |-> exit_price - pm.position.entry_price]]

reset_daily_state(pm, today) ==
    [position |-> None, stop_loss_count |-> 0, trade_counter |-> 0, today_date |-> today]

----------------------------------------------------------------------------
(* SignalGenerator.check_exit_conditions *)

NoExit == [should_exit |-> FALSE, reason |-> "None", price |-> 0]

\* mutant: target is tested before the stop loss
check_exit_conditions_target_first(position, current_price, count, now) ==
    IF current_price >= position.target
        THEN [should_exit |-> TRUE, reason |-> "TARGET", price |-> current_price]
    ELSE IF current_price <= position.stop_loss
        THEN [should_exit |-> TRUE, reason |-> "STOP_LOSS", price |-> current_price]
    ELSE IF position.is_first_candle /\ count >= max_candles_timeout
        THEN [should_exit |-> TRUE, reason |-> "10_CANDLE_TIMEOUT", price |-> current_price]
    ELSE IF now >= eod_exit_time
        THEN [should_exit |-> TRUE, reason |-> "EOD", price |-> current_price]
    ELSE NoExit

check_exit_conditions(position, current_price, count, now) ==
    IF current_price <= position.stop_loss
        THEN [should_exit |-> TRUE, reason |-> "STOP_LOSS", price |-> current_price]
    ELSE IF current_price >= position.target
        THEN [should_exit |-> TRUE, reason |-> "TARGET", price |-> current_price]
    ELSE IF position.is_first_candle /\ count >= max_candles_timeout
        THEN [should_exit |-> TRUE, reason |-> "10_CANDLE_TIMEOUT", price |-> current_price]
    ELSE IF now >= eod_exit_time
        THEN [should_exit |-> TRUE, reason |-> "EOD", price |-> current_price]
    ELSE NoExit


----------------------------------------------------------------------------
(* Clock and calendar (utils/trading_hours.py) *)

Hour(t) == t \div 60
Minute(t) == t % 60

Weekdays == <<"Thu", "Fri", "Sat", "Sun", "Mon", "Tue", "Wed">>
Holidays == {}

is_holiday(d) == Weekdays[(d % 7) + 1] \in {"Sat", "Sun"} \/ d \in Holidays

is_trading_day(d) == ~is_holiday(d)

is_market_open(d, t) == is_trading_day(d) /\ market_start <= t /\ t <= market_end

\* The instants at which the model reads the clock.  A sleep ends at the
\* first of these instants that is not earlier than its nominal end.
Times ==
    {2, 480, 525, 535, 540, 550}
    \cup {555 + 3 * i : i \in 0..10}
    \cup {915, 930, 933, 965, 975}

MinOf(S) == CHOOSE x \in S : \A y \in S : x <= y

After(d, t, mins) ==
    IF \E x \in Times : x >= t + mins
    THEN <<d, MinOf({x \in Times : x >= t + mins})>>
    ELSE <<d + 1, MinOf({x \in Times : x >= t + mins - 1440})>>

----------------------------------------------------------------------------
(* SignalGenerator: entry side *)

is_market_hours(t) == market_start <= t /\ t <= market_end

is_first_candle_time(t) == 555 <= t /\ t <= 561

is_green_candle(candle) == candle.close > candle.open

NoScenario == [scenario |-> 0, target |-> 0]

check_scenario_1(candle, pivots, is_first_candle, structure) ==
    IF structure # "BULLISH" THEN NoScenario
    ELSE IF is_first_candle
    THEN IF pivots.PP >= candle.open /\ candle.open >= pivots.S1 /\ candle.close > pivots.R1
         THEN [scenario |-> 1, target |-> pivots.R3] ELSE NoScenario
    ELSE IF candle.close > pivots.R1
         THEN [scenario |-> 1, target |-> pivots.R3] ELSE NoScenario

check_scenario_2(candle, pivots, is_first_candle, structure) ==
    IF structure # "BULLISH" THEN NoScenario
    ELSE IF is_first_candle
    THEN IF /\ pivots.PP <= candle.open /\ candle.open <= pivots.R1
            /\ pivots.R2 < candle.close /\ candle.close < pivots.R3
         THEN [scenario |-> 2, target |-> pivots.R4] ELSE NoScenario
    ELSE IF pivots.R2 < candle.close /\ candle.close < pivots.R3
         THEN [scenario |-> 2, target |-> pivots.R4] ELSE NoScenario

check_scenario_3(candle, pivots, is_first_candle, structure) ==
    IF structure # "BULLISH" THEN NoScenario
    ELSE IF is_first_candle THEN NoScenario
    ELSE IF /\ pivots.R2 <= candle.open /\ candle.open <= pivots.R3
            /\ candle.close > pivots.R3
         THEN [scenario |-> 3, target |-> pivots.R5] ELSE NoScenario

Signal(ot, entry, sl, tgt, sc, first) ==
    [signal_type |-> "ENTRY", scenario |-> sc, option_type |-> ot,
     entry_price |-> entry, stop_loss |-> sl, target |-> tgt,
     is_first_candle |-> first]

_create_entry_signal(r, candle, ot, is_first) ==
    Signal(ot, candle.close, candle.low, r.target, r.scenario, is_first)

\* (variant: scenario 2 is tried before scenario 1)
generate_entry_signal_second_first(candle, significant, pivots, structure, ot, now) ==
    IF ~is_market_hours(now) THEN None
    ELSE IF structure # "BULLISH" THEN None
    ELSE IF ~is_green_candle(candle) THEN None
    ELSE IF ~significant THEN None
    ELSE LET is_first == is_first_candle_time(now)
             r1 == check_scenario_1(candle, pivots, is_first, structure)
             r2 == check_scenario_2(candle, pivots, is_first, structure)
             r3 == check_scenario_3(candle, pivots, is_first, structure)
         IN  IF r2 # NoScenario THEN _create_entry_signal(r2, candle, ot, is_first)
             ELSE IF r1 # NoScenario THEN _create_entry_signal(r1, candle, ot, is_first)
             ELSE IF r3 # NoScenario THEN _create_entry_signal(r3, candle, ot, is_first)
             ELSE None

\* (variant: the colour of the candle is not tested)
generate_entry_signal_any_colour(candle, significant, pivots, structure, ot, now) ==
    IF ~is_market_hours(now) THEN None
    ELSE IF structure # "BULLISH" THEN None
    ELSE IF ~significant THEN None
    ELSE LET is_first == is_first_candle_time(now)
             r1 == check_scenario_1(candle, pivots, is_first, structure)
             r2 == check_scenario_2(candle, pivots, is_first, structure)
             r3 == check_scenario_3(candle, pivots, is_first, structure)
         IN  IF r1 # NoScenario THEN _create_entry_signal(r1, candle, ot, is_first)
             ELSE IF r2 # NoScenario THEN _create_entry_signal(r2, candle, ot, is_first)
             ELSE IF r3 # NoScenario THEN _create_entry_signal(r3, candle, ot, is_first)
             ELSE None

\* significant: the result of is_significant_candle on the rolling window
generate_entry_signal(candle, significant, pivots, structure, ot, now) ==
    IF ~is_market_hours(now) THEN None
    ELSE IF structure # "BULLISH" THEN None
    ELSE IF ~is_green_candle(candle) THEN None
    ELSE IF ~significant THEN None
    ELSE LET is_first == is_first_candle_time(now)
             r1 == check_scenario_1(candle, pivots, is_first, structure)
             r2 == check_scenario_2(candle, pivots, is_first, structure)
             r3 == check_scenario_3(candle, pivots, is_first, structure)
         IN  IF r1 # NoScenario THEN _create_entry_signal(r1, candle, ot, is_first)
             ELSE IF r2 # NoScenario THEN _create_entry_signal(r2, candle, ot, is_first)
             ELSE IF r3 # NoScenario THEN _create_entry_signal(r3, candle, ot, is_first)
             ELSE None

----------------------------------------------------------------------------
(* Values shared by the specifications *)

DefaultControl == [trading_enabled |-> TRUE, panic_mode |-> FALSE]

\* (errors: exceptions raised during the step; alerts: send_error_alert calls)
NoObs == [op |-> "none", raised |-> FALSE, opens |-> 0, closes |-> 0, refused |-> 0,
          reasons |-> <<>>, prices |-> <<>>, auth |-> 0, ltp |-> None,
          errors |-> 0, alerts |-> 0]

\* content of the token file, with the day and minute it was written
\* (dated: "token|YYYY-MM-DD" as save_access_token writes it on that day;
\* undated: a token without "|"; malformed: text after "|" that is no date)
Absent == [kind |-> "absent"]
EmptyFile == [kind |-> "empty"]
OldToken == [value |-> "old"]
NewToken == [value |-> "new"]

TokenFiles ==
    {Absent, EmptyFile}
    \cup [kind : {"dated", "undated", "malformed"}, token : {OldToken},
          day : {0, 1}, minute : {359, 360}]

load_access_token(file, today) ==
    IF file.kind = "absent" THEN None
    ELSE IF file.kind = "empty" THEN None
    ELSE IF file.kind = "undated" THEN file.token
    ELSE IF file.kind = "malformed" THEN None      \* strptime raises, caught
    ELSE IF file.day = today THEN file.token
    ELSE None

\* what the collaborators answer during one authenticate() call
AuthEnvs ==
    [existing_valid : BOOLEAN,                      \* validate_token(stored token)
     server_ok : BOOLEAN,                           \* check_postback_server
     request : {"token", "timeout", "expired"},     \* wait_for_request_token
     exchange_ok : BOOLEAN,                         \* exchange_token
     save_ok : BOOLEAN,                             \* save_access_token
     new_valid : BOOLEAN]                           \* validate_token(new token)

AuthOutcome(result, raised, notes, file, reused) ==
    [result |-> result, raised |-> raised, notes |-> notes, file |-> file,
     reused |-> reused]

\* (variant: the new token is returned whatever its validation says)
authenticate_unvalidated(file, today, now, env) ==
    LET token == load_access_token(file, today)
        saved == [kind |-> "dated", token |-> NewToken, day |-> today, minute |-> now]
    IN  IF token # None /\ env.existing_valid
        THEN AuthOutcome(token, FALSE, <<"message">>, file, TRUE)
        ELSE IF ~env.server_ok
        THEN AuthOutcome(None, FALSE, <<"error_alert">>, file, FALSE)
        ELSE IF env.request # "token"
        THEN AuthOutcome(None, FALSE, <<"auth_request", "auth_failure">>, file, FALSE)
        ELSE IF ~env.exchange_ok
        THEN AuthOutcome(None, FALSE, <<"auth_request", "auth_failure">>, file, FALSE)
        ELSE IF ~env.save_ok
        THEN AuthOutcome(None, TRUE, <<"auth_request">>, file, FALSE)
        ELSE AuthOutcome(NewToken, FALSE, <<"auth_request", "auth_success">>, saved, FALSE)

\* notes: the notifier calls made, in order
authenticate(file, today, now, env) ==
    LET token == load_access_token(file, today)
        saved == [kind |-> "dated", token |-> NewToken, day |-> today, minute |-> now]
    IN  IF token # None /\ env.existing_valid
        THEN AuthOutcome(token, FALSE, <<"message">>, file, TRUE)
        ELSE IF ~env.server_ok
        THEN AuthOutcome(None, FALSE, <<"error_alert">>, file, FALSE)
        ELSE IF env.request # "token"
        THEN AuthOutcome(None, FALSE, <<"auth_request", "auth_failure">>, file, FALSE)
        ELSE IF ~env.exchange_ok
        THEN AuthOutcome(None, FALSE, <<"auth_request", "auth_failure">>, file, FALSE)
        ELSE IF ~env.save_ok                         \* save_access_token re-raises
        THEN AuthOutcome(None, TRUE, <<"auth_request">>, file, FALSE)
        ELSE IF ~env.new_valid
        THEN AuthOutcome(None, FALSE, <<"auth_request", "auth_failure">>, saved, FALSE)
        ELSE AuthOutcome(NewToken, FALSE, <<"auth_request", "auth_success">>, saved, FALSE)

\* AuthenticationServer.__init__: no request token stored
NewServer == [request_token |-> None, token_timestamp |-> None]

\* no request is being handled; get: position of the get_token thread, with
\* the age it computed and the timestamp it read; cb: position of the
\* callback thread, with the request token it carries; response: the last
\* answer of get_token
IdleHandler ==
    [get |-> "idle", age |-> 0, stamp |-> None, cb |-> "idle", cb_token |-> None,
     response |-> None]

\* the core before its first authenticate(): login: number of login links
\* sent; sent_at: when the current link was sent; next_poll: when the sleep
\* after the last poll ends; ended_at: when the last wait ended
IdleClient ==
    [pc |-> "idle", login |-> 0, sent_at |-> 0, next_poll |-> 0, ended_at |-> 0,
     result |-> None]

NoExitIn == [position |-> None, price |-> 0, count |-> 0, now |-> 0]

\* every variable the unit specifications do not use
SchedulerIdle ==
    /\ day = 0
    /\ clock = 0
    /\ pre_market_done = FALSE
    /\ trading_done = FALSE
    /\ control = DefaultControl
    /\ pivot_data = [o \in OptionTypes |-> FALSE]
    /\ candle_count = 0
    /\ controlFile = DefaultControl
    /\ opControl = DefaultControl
    /\ opPc = "idle"
    /\ authToday = FALSE
    /\ preToday = FALSE
    /\ opLast = None
    /\ running = TRUE
    /\ token_file = Absent
    /\ server = NewServer
    /\ handler = IdleHandler
    /\ client = IdleClient

SchedulerUnchanged ==
    UNCHANGED <<day, clock, pre_market_done, trading_done, control, pivot_data,
                candle_count, controlFile, opControl, opPc, authToday,
                preToday, opLast, running, token_file, server, handler, client>>

----------------------------------------------------------------------------
(* PivotCalculator.  Prices are integers counted in hundredths, the        *)
(* precision calculate_pivots rounds to.                                     *)

\* round(n / 3): a third is never halfway between two integers
Round3(n) == (n + 1) \div 3

\* (variant: the range high - low is left out of R2)
calculate_pivots_flat_r2(high, low, close) ==
    LET s == high + low + close
        r1 == 2 * s - 3 * low
        r2 == s
        r3 == 3 * high + 2 * (s - 3 * low)
        r4 == r3 + (r2 - r1)
        r5 == r4 + (r3 - r2)
    IN  [PP |-> Round3(s), R1 |-> Round3(r1), R2 |-> Round3(r2), R3 |-> Round3(r3),
         R4 |-> Round3(r4), R5 |-> Round3(r5),
         S1 |-> Round3(2 * s - 3 * high),
         S2 |-> Round3(s - 3 * (high - low)),
         S3 |-> Round3(3 * low - 2 * (3 * high - s))]

\* s, r1 .. r5 are three times the unrounded pp, r1 .. r5 of the code
calculate_pivots(high, low, close) ==
    LET s == high + low + close
        r1 == 2 * s - 3 * low
        r2 == s + 3 * (high - low)
        r3 == 3 * high + 2 * (s - 3 * low)
        r4 == r3 + (r2 - r1)
        r5 == r4 + (r3 - r2)
    IN  [PP |-> Round3(s), R1 |-> Round3(r1), R2 |-> Round3(r2), R3 |-> Round3(r3),
         R4 |-> Round3(r4), R5 |-> Round3(r5),
         S1 |-> Round3(2 * s - 3 * high),
         S2 |-> Round3(s - 3 * (high - low)),
         S3 |-> Round3(3 * low - 2 * (3 * high - s))]

Abs(x) == IF x < 0 THEN -x ELSE x

determine_structure(pivots) ==
    LET r1_pp_diff == pivots.R1 - pivots.PP
        pp_s1_diff == pivots.PP - pivots.S1
    IN  IF Abs(r1_pp_diff - pp_s1_diff) < 500 THEN "NEUTRAL"
        ELSE IF r1_pp_diff > pp_s1_diff THEN "BULLISH"
        ELSE "BEARISH"

----------------------------------------------------------------------------
(* Market data seen by the scheduler *)

\* previous-day OHLC of the ATM call and put, None when the fetch returns nothing
BullishDay == [high |-> 6000, low |-> 3000, close |-> 6000]
DayOHLC == {[CE |-> BullishDay, PE |-> BullishDay], [CE |-> BullishDay, PE |-> None]}

\* candles fetched during the trading loop
LoopCandles ==
    {[open |-> 4500, low |-> 4500, close |-> 7500],
     [open |-> 4600, low |-> 4000, close |-> 4400],
     [open |-> 9500, low |-> 9000, close |-> 10500]}

\* what analyze_candle fetches for one option type in one cycle
\* (candle: fetch_current_candle's result; enough: get_recent_candles returned
\* at least 10 candles; significant: is_significant_candle on that window;
\* raises: a call inside analyze_candle's try block raises)
AnalysisInputs ==
    [candle : {None}, enough : {TRUE}, significant : {FALSE}, raises : BOOLEAN]
    \cup [candle : LoopCandles, enough : {TRUE}, significant : {TRUE}, raises : {FALSE}]
    \cup [candle : {c \in LoopCandles : c.open = 4500}, enough : {FALSE},
          significant : {TRUE}, raises : {FALSE}]

\* last traded price as get_ltp returns it (None on failure, 0 when there is no quote)
LtpValues == {None, [price |-> 0], [price |-> 7400]}

\* minutes an authenticate() call may take
AuthMinutes == {0, 5}

StoredPivots(ohlc) ==
    IF ohlc = None THEN None
    ELSE LET pv == calculate_pivots(ohlc.high, ohlc.low, ohlc.close)
         IN  [pivots |-> pv, structure |-> determine_structure(pv)]

----------------------------------------------------------------------------
(* PivotTradingSystem.analyze_candle and one pass of the trading loop body *)

NoResult == [kind |-> "none"]

\* (variant: the length of the window is not tested)
analyze_candle_any_window(pm, pdata, count, ot, in, now) ==
    IF in.raises THEN NoResult
    ELSE IF in.candle = None THEN NoResult
    ELSE IF pdata[ot] = None THEN NoResult
    ELSE IF ~has_position(pm)
    THEN LET sg == generate_entry_signal(in.candle, in.significant, pdata[ot].pivots,
                                         pdata[ot].structure, ot, now)
         IN  IF sg = None THEN NoResult ELSE [kind |-> "entry", signal |-> sg]
    ELSE LET x == check_exit_conditions(pm.position, in.candle.close, count, now)
         IN  IF x.should_exit
             THEN [kind |-> "exit", reason |-> x.reason, price |-> x.price]
             ELSE NoResult

analyze_candle(pm, pdata, count, ot, in, now) ==
    IF in.raises THEN NoResult                     \* except: logged, None returned
    ELSE IF in.candle = None THEN NoResult
    ELSE IF ~in.enough THEN NoResult
    ELSE IF pdata[ot] = None THEN NoResult
    ELSE IF ~has_position(pm)
    THEN LET sg == generate_entry_signal(in.candle, in.significant, pdata[ot].pivots,
                                         pdata[ot].structure, ot, now)
         IN  IF sg = None THEN NoResult ELSE [kind |-> "entry", signal |-> sg]
    ELSE LET x == check_exit_conditions(pm.position, in.candle.close, count, now)
         IN  IF x.should_exit
             THEN [kind |-> "exit", reason |-> x.reason, price |-> x.price]
             ELSE NoResult

\* the state a cycle threads through its two analyses
CycleStart(pm, count) ==
    LET held == has_position(pm)
        c == IF held THEN count + 1 ELSE count
    IN  [pm |-> update_position(pm, c), candle_count |-> c,
         opens |-> 0, closes |-> 0, refused |-> 0, reasons |-> <<>>, prices |-> <<>>,
         errors |-> 0]

\* body of "for option_type in ['CE', 'PE']" for one option type
CycleStep(s, pdata, ot, in, now) ==
    LET r == analyze_candle(s.pm, pdata, s.candle_count, ot, in, now)
    IN  IF in.raises THEN [s EXCEPT !.errors = @ + 1]
        ELSE IF r.kind = "entry"
        THEN IF can_re_enter(s.pm)
             THEN [s EXCEPT !.pm = open_position(s.pm, r.signal).pm,
                            !.candle_count = 0,
                            !.opens = @ + 1]
             ELSE [s EXCEPT !.refused = @ + 1]
        ELSE IF r.kind = "exit"
        THEN [s EXCEPT !.pm = close_position(s.pm, r.price, r.reason).pm,
                       !.candle_count = 0,
                       !.closes = @ + 1,
                       !.reasons = Append(@, r.reason),
                       !.prices = Append(@, r.price)]
        ELSE s

Cycle(pm, pdata, count, inCE, inPE, now) ==
    CycleStep(CycleStep(CycleStart(pm, count), pdata, "CE", inCE, now),
              pdata, "PE", inPE, now)

\* end_of_day_cleanup: force exit at LTP, or at the entry price without one
end_of_day_cleanup(pm, ltp) ==
    IF pm = None
    THEN [pm |-> pm, raised |-> TRUE, closes |-> 0, reasons |-> <<>>, prices |-> <<>>]
    ELSE IF has_position(pm)
    THEN LET exit_price == IF ltp = None \/ ltp.price = 0
                           THEN pm.position.entry_price ELSE ltp.price
         IN  [pm |-> close_position(pm, exit_price, "EOD").pm, raised |-> FALSE,
              closes |-> 1, reasons |-> <<"EOD">>, prices |-> <<exit_price>>]
    ELSE [pm |-> pm, raised |-> FALSE, closes |-> 0, reasons |-> <<>>, prices |-> <<>>]

----------------------------------------------------------------------------
(* Unit specification of PositionManager: any sequence of its four calls *)

SignalsPM ==
    { Signal(ot, e, sl, MaxPrice, 1, f) :
        ot \in OptionTypes, e \in {2, 3}, sl \in {1, 2}, f \in BOOLEAN }

ExitReasons == {"STOP_LOSS", "TARGET", "10_CANDLE_TIMEOUT", "EOD"}

InitPM ==
    /\ SchedulerIdle
    /\ pc = "pm"
    /\ position_mgr = NewPositionManager(0)
    /\ obs = NoObs
    /\ exitIn = NoExitIn
    /\ exitOut = NoExit
    /\ unitIn = None
    /\ unitOut = None

PMOpen ==
    /\ pc = "pm"
    /\ position_mgr.trade_counter < MaxTrades
    /\ \E signal \in SignalsPM :
         LET r == open_position(position_mgr, signal)
         IN  /\ position_mgr' = r.pm
             /\ obs' = [NoObs EXCEPT !.op = "open_position", !.raised = r.raised]
    /\ UNCHANGED <<pc, exitIn, exitOut, unitIn, unitOut>>
    /\ SchedulerUnchanged

PMUpdate ==
    /\ pc = "pm"
    /\ \E n \in 0..2 :
         /\ position_mgr' = update_position(position_mgr, n)
         /\ obs' = [NoObs EXCEPT !.op = "update_position"]
    /\ UNCHANGED <<pc, exitIn, exitOut, unitIn, unitOut>>
    /\ SchedulerUnchanged

PMClose ==
    /\ pc = "pm"
    /\ \E price \in {1, MaxPrice}, reason \in ExitReasons :
         LET r == close_position(position_mgr, price, reason)
         IN  /\ position_mgr' = r.pm
             /\ obs' = [NoObs EXCEPT !.op = "close_position", !.raised = r.raised,
                                     !.reasons = <<reason>>]
    /\ UNCHANGED <<pc, exitIn, exitOut, unitIn, unitOut>>
    /\ SchedulerUnchanged

PMReset ==
    /\ pc = "pm"
    /\ position_mgr' = reset_daily_state(position_mgr, 0)
    /\ obs' = [NoObs EXCEPT !.op = "reset_daily_state"]
    /\ UNCHANGED <<pc, exitIn, exitOut, unitIn, unitOut>>
    /\ SchedulerUnchanged

NextPM == PMOpen \/ PMUpdate \/ PMClose \/ PMReset

SpecPM == InitPM /\ [][NextPM]_vars

\* C1: open_position called while a position is held raises and leaves the
\* ledger (position, stop_loss_count, trade_counter) exactly as it was, so the
\* single held position is never replaced by a second one.
C1_OpenWhileHeldFails ==
    [][ (obs'.op = "open_position" /\ has_position(position_mgr))
            => (obs'.raised /\ position_mgr' = position_mgr) ]_vars

C1_Witness ==
    /\ pc = "pm"
    /\ obs.op = "open_position"
    /\ obs.raised
    /\ has_position(position_mgr)

\* C24: stop_loss_count is the number of closes with reason STOP_LOSS since
\* the last reset_daily_state: a close with that reason adds one, a close with
\* another reason and every other call leave it, a reset clears it; and
\* can_re_enter() is true exactly when stop_loss_count <= max_re_entries.
C24_StopLossCount ==
    [][ /\ (obs'.op = "close_position" /\ ~obs'.raised) =>
              position_mgr'.stop_loss_count =
                  position_mgr.stop_loss_count
                    + (IF obs'.reasons = <<"STOP_LOSS">> THEN 1 ELSE 0)
        /\ (obs'.op \in {"open_position", "update_position"} \/ obs'.raised) =>
              position_mgr'.stop_loss_count = position_mgr.stop_loss_count
        /\ obs'.op = "reset_daily_state" => position_mgr'.stop_loss_count = 0
        /\ can_re_enter(position_mgr') <=>
              (position_mgr'.stop_loss_count <= max_re_entries) ]_vars

C24_Witness ==
    /\ pc = "pm"
    /\ obs.op = "close_position"
    /\ ~obs.raised
    /\ obs.reasons = <<"STOP_LOSS">>
    /\ position_mgr.stop_loss_count = max_re_entries + 1
    /\ ~can_re_enter(position_mgr)

\* C25: close_position called on the empty ledger raises and leaves the
\* ledger as it was, also when the reason passed is STOP_LOSS.
C25_CloseWhileEmptyFails ==
    [][ (obs'.op = "close_position" /\ ~has_position(position_mgr))
            => (obs'.raised /\ position_mgr' = position_mgr) ]_vars

C25_Witness ==
    /\ pc = "pm"
    /\ obs.op = "close_position"
    /\ obs.raised
    /\ obs.reasons = <<"STOP_LOSS">>
    /\ ~has_position(position_mgr)
    /\ position_mgr.trade_counter > 0

\* C26: between two resets the positions opened carry the sequence numbers
\* 1, 2, 3, ... in order of opening (so their ids are pairwise distinct), a
\* failed open_position consumes no number, and a reset restarts at 1.
C26_TradeIdSequence ==
    [][ /\ (obs'.op = "open_position" /\ ~obs'.raised) =>
              /\ position_mgr'.trade_counter = position_mgr.trade_counter + 1
              /\ position_mgr'.position.trade_id =
                    <<position_mgr.today_date, position_mgr.trade_counter + 1>>
        /\ (obs'.op = "open_position" /\ obs'.raised) =>
              position_mgr'.trade_counter = position_mgr.trade_counter
        /\ obs'.op \in {"update_position", "close_position"} =>
              position_mgr'.trade_counter = position_mgr.trade_counter
        /\ obs'.op = "reset_daily_state" => position_mgr'.trade_counter = 0 ]_vars

C26_Witness ==
    /\ pc = "pm"
    /\ obs.op = "open_position"
    /\ ~obs.raised
    /\ has_position(position_mgr)
    /\ position_mgr.position.trade_id = <<position_mgr.today_date, 2>>

----------------------------------------------------------------------------
(* Unit specification of check_exit_conditions: inputs drawn by Init *)

ExitPositions ==
    { [trade_id |-> <<0, 1>>, option_type |-> "CE", entry_price |-> 2,
       stop_loss |-> sl, target |-> tg, scenario |-> 1,
       is_first_candle |-> f, candles_held |-> 0] :
        sl \in Prices, tg \in Prices, f \in BOOLEAN }

InitExit ==
    /\ SchedulerIdle
    /\ pc = "exit_in"
    /\ position_mgr = None
    /\ obs = NoObs
    /\ exitIn \in [position : ExitPositions,
                   price : Prices,
                   count : {max_candles_timeout - 1, max_candles_timeout},
                   now : {eod_exit_time - 1, eod_exit_time}]
    /\ exitOut = NoExit
    /\ unitIn = None
    /\ unitOut = None

ExitCheck ==
    /\ pc = "exit_in"
    /\ pc' = "exit_out"
    /\ exitOut' = check_exit_conditions(exitIn.position, exitIn.price,
                                        exitIn.count, exitIn.now)
    /\ UNCHANGED <<position_mgr, obs, exitIn, unitIn, unitOut>>
    /\ SchedulerUnchanged

NextExit == ExitCheck

SpecExit == InitExit /\ [][NextExit]_vars

ExitSL == exitIn.price <= exitIn.position.stop_loss
ExitTG == exitIn.price >= exitIn.position.target
ExitTO == exitIn.position.is_first_candle /\ exitIn.count >= max_candles_timeout
ExitEOD == exitIn.now >= eod_exit_time

\* C3: the four exit conditions are evaluated in the order stop-loss, target,
\* first-candle timeout, EOD and the first that holds is returned; no exit
\* when none holds.  STOP_LOSS wins when price meets both price conditions.
C3_ExitPriority ==
    pc = "exit_out" =>
        /\ ExitSL => exitOut.reason = "STOP_LOSS"
        /\ (exitOut.reason = "STOP_LOSS") <=> ExitSL
        /\ (exitOut.reason = "TARGET") <=> (~ExitSL /\ ExitTG)
        /\ (exitOut.reason = "10_CANDLE_TIMEOUT") <=> (~ExitSL /\ ~ExitTG /\ ExitTO)
        /\ (exitOut.reason = "EOD") <=> (~ExitSL /\ ~ExitTG /\ ~ExitTO /\ ExitEOD)
        /\ exitOut.should_exit <=> (ExitSL \/ ExitTG \/ ExitTO \/ ExitEOD)
        /\ exitOut.should_exit => exitOut.price = exitIn.price

C3_Witness ==
    /\ pc = "exit_out"
    /\ ExitSL
    /\ ExitTG
    /\ exitOut.reason = "STOP_LOSS"

----------------------------------------------------------------------------
(* The scheduler: PivotTradingSystem.run, trading_loop, end_of_day_cleanup,  *)
(* and the operator's commands on the control record.                        *)

StartTimes == {2}

\* the scheduler keeps the content of the token file, not its modification
\* time: authenticate() and load_access_token() read the content only
Untimed(file) ==
    IF file.kind \in {"absent", "empty"} THEN file ELSE [file EXCEPT !.minute = 0]

Init ==
    /\ pc = "run"
    /\ day = 0
    /\ clock \in StartTimes
    /\ pre_market_done = FALSE
    /\ trading_done = FALSE
    /\ control = DefaultControl
    /\ position_mgr = None
    /\ pivot_data = [o \in OptionTypes |-> None]
    /\ candle_count = 0
    /\ controlFile = DefaultControl
    /\ opControl = DefaultControl
    /\ opPc = "idle"
    /\ obs = NoObs
    /\ authToday = FALSE
    /\ preToday = FALSE
    /\ opLast = None
    /\ exitIn = NoExitIn
    /\ exitOut = NoExit
    /\ unitIn = None
    /\ unitOut = None
    /\ running = TRUE
    /\ token_file = Absent
    /\ server = NewServer
    /\ handler = IdleHandler
    /\ client = IdleClient

\* time passes: the clock is next read mins minutes later or at the next instant
\* after that; the per-day observations are cleared when the date changes
Sleep(mins, authNow, preNow) ==
    \E a \in {After(day, clock, mins)} :
        /\ a[1] <= MaxDay
        /\ day' = a[1]
        /\ clock' = a[2]
        /\ authToday' = (a[1] = day /\ authNow)
        /\ preToday' = (a[1] = day /\ preNow)

OperatorUnchanged ==
    UNCHANGED <<controlFile, opControl, opPc, opLast, exitIn, exitOut, unitIn, unitOut,
                running, server, handler, client>>

\* top of an iteration of run(): load_control_state, then the branch conditions
RunTop == pc = "run" /\ control' = controlFile

Panic == controlFile.panic_mode
ResetWindow == Hour(clock) = 0 /\ Minute(clock) < 5
PreMarketWindow == ~pre_market_done /\ 8 <= Hour(clock) /\ Hour(clock) < 9
Scheduled == ~Panic /\ is_trading_day(day) /\ ~ResetWindow

\* panic_mode is set: the scheduling loop is left (break, or the AttributeError
\* on self.position_manager when pivot_data has keys) and run() ends
RunPanic ==
    /\ RunTop
    /\ Panic
    /\ pc' = "exited"
    /\ obs' = [NoObs EXCEPT !.op = "run_panic", !.raised = (pre_market_done \/ preToday)]
    /\ UNCHANGED <<day, clock, pre_market_done, trading_done, position_mgr, pivot_data,
                   candle_count, authToday, preToday>>
    /\ OperatorUnchanged
    /\ UNCHANGED token_file

RunNotTradingDay ==
    /\ RunTop
    /\ ~Panic
    /\ ~is_trading_day(day)
    /\ Sleep(60, authToday, preToday)
    /\ obs' = [NoObs EXCEPT !.op = "run_not_trading_day"]
    /\ UNCHANGED <<pc, pre_market_done, trading_done, position_mgr, pivot_data, candle_count>>
    /\ OperatorUnchanged
    /\ UNCHANGED token_file

RunResetFlags ==
    /\ RunTop
    /\ ~Panic
    /\ is_trading_day(day)
    /\ ResetWindow
    /\ pre_market_done' = FALSE
    /\ trading_done' = FALSE
    /\ Sleep(5, authToday, preToday)
    /\ obs' = [NoObs EXCEPT !.op = "run_reset_flags"]
    /\ UNCHANGED <<pc, position_mgr, pivot_data, candle_count>>
    /\ OperatorUnchanged
    /\ UNCHANGED token_file

RunWaitPreMarket ==
    /\ RunTop
    /\ Scheduled
    /\ PreMarketWindow
    /\ Minute(clock) < 45
    /\ Sleep(10, authToday, preToday)
    /\ obs' = [NoObs EXCEPT !.op = "run_wait_pre_market"]
    /\ UNCHANGED <<pc, pre_market_done, trading_done, position_mgr, pivot_data, candle_count>>
    /\ OperatorUnchanged
    /\ UNCHANGED token_file

\* authenticate() fails at 08:45..08:59: retry in 5 minutes
RunAuthFail ==
    /\ RunTop
    /\ Scheduled
    /\ PreMarketWindow
    /\ Minute(clock) >= 45
    /\ \E d \in AuthMinutes : Sleep(d + 5, authToday, preToday)
    /\ obs' = [NoObs EXCEPT !.op = "run_pre_market", !.auth = 1]
    /\ UNCHANGED <<pc, pre_market_done, trading_done, position_mgr, pivot_data, candle_count>>
    /\ OperatorUnchanged
    /\ \E env \in AuthEnvs :
         \E a \in {authenticate(token_file, day, clock, env)} :
             /\ ~a.raised
             /\ a.result = None
             /\ token_file' = Untimed(a.file)

\* authenticate() succeeds, pre_market_setup() returns False: retry in 5 minutes
RunPreMarketFail ==
    /\ RunTop
    /\ Scheduled
    /\ PreMarketWindow
    /\ Minute(clock) >= 45
    /\ position_mgr' = NewPositionManager(day)
    /\ \E d \in AuthMinutes : Sleep(d + 5, TRUE, preToday)
    /\ obs' = [NoObs EXCEPT !.op = "run_pre_market", !.auth = 1]
    /\ UNCHANGED <<pc, pre_market_done, trading_done, pivot_data, candle_count>>
    /\ OperatorUnchanged
    /\ \E env \in AuthEnvs :
         \E a \in {authenticate(token_file, day, clock, env)} :
             /\ ~a.raised
             /\ a.result # None
             /\ token_file' = Untimed(a.file)

\* authenticate() and pre_market_setup() succeed
RunPreMarketOk ==
    /\ RunTop
    /\ Scheduled
    /\ PreMarketWindow
    /\ Minute(clock) >= 45
    /\ position_mgr' = NewPositionManager(day)
    /\ \E ohlc \in DayOHLC :
         pivot_data' = [o \in OptionTypes |-> StoredPivots(ohlc[o])]
    /\ pre_market_done' = TRUE
    /\ \E d \in AuthMinutes : Sleep(d, TRUE, TRUE)
    /\ obs' = [NoObs EXCEPT !.op = "run_pre_market", !.auth = 1]
    /\ UNCHANGED <<pc, trading_done, candle_count>>
    /\ OperatorUnchanged
    /\ \E env \in AuthEnvs :
         \E a \in {authenticate(token_file, day, clock, env)} :
             /\ ~a.raised
             /\ a.result # None
             /\ token_file' = Untimed(a.file)

MarketOpenBranch == Scheduled /\ ~PreMarketWindow /\ is_market_open(day, clock)

\* market open: a late authenticate() and pre_market_setup() when pre-market is
\* not done, then trading_loop() unless trading_done
RunMarketOpen ==
    /\ RunTop
    /\ MarketOpenBranch
    /\ \E authOk \in BOOLEAN, preOk \in BOOLEAN, d \in AuthMinutes, ohlc \in DayOHLC :
         LET late == ~pre_market_done
             auth == late /\ authOk
             pre == auth /\ preOk
             mins == IF late THEN d ELSE IF trading_done THEN 1 ELSE 0
         IN  /\ position_mgr' = IF auth THEN NewPositionManager(day) ELSE position_mgr
             /\ pivot_data' = IF pre
                              THEN [o \in OptionTypes |-> StoredPivots(ohlc[o])]
                              ELSE pivot_data
             /\ pre_market_done' = (pre_market_done \/ pre)
             /\ Sleep(mins, authToday \/ auth, preToday \/ pre)
             /\ obs' = [NoObs EXCEPT !.op = "run_market_open",
                                     !.auth = IF late THEN 1 ELSE 0]
             /\ IF late
                THEN \E env \in AuthEnvs :
                         \E a \in {authenticate(token_file, day, clock, env)} :
                             /\ ~a.raised
                             /\ (a.result # None) = authOk
                             /\ token_file' = Untimed(a.file)
                ELSE token_file' = token_file
    /\ pc' = IF trading_done THEN "run" ELSE "trading"
    /\ UNCHANGED <<trading_done, candle_count>>
    /\ OperatorUnchanged

AfterCloseBranch ==
    /\ Scheduled
    /\ ~PreMarketWindow
    /\ ~is_market_open(day, clock)
    /\ Hour(clock) >= 15
    /\ Minute(clock) >= 15

\* after 15:15: a cleanup that was missed, then sleep until 08:00 tomorrow
RunAfterClose ==
    /\ RunTop
    /\ AfterCloseBranch
    /\ day + 1 <= MaxDay
    /\ \E ltp \in LtpValues :
         LET missed == ~trading_done /\ pre_market_done
             e == end_of_day_cleanup(position_mgr, ltp)
         IN  /\ position_mgr' = IF missed THEN e.pm ELSE position_mgr
             /\ obs' = IF missed
                       THEN [NoObs EXCEPT !.op = "run_after_close", !.raised = e.raised,
                                          !.closes = e.closes, !.reasons = e.reasons,
                                          !.prices = e.prices, !.ltp = ltp]
                       ELSE [NoObs EXCEPT !.op = "run_after_close"]
             /\ trading_done' = (trading_done \/ missed)
    /\ day' = day + 1
    /\ clock' = 480
    /\ authToday' = FALSE
    /\ preToday' = FALSE
    /\ UNCHANGED <<pc, pre_market_done, pivot_data, candle_count>>
    /\ OperatorUnchanged
    /\ UNCHANGED token_file

\* any other time: check again in 5 minutes
RunWait ==
    /\ RunTop
    /\ Scheduled
    /\ ~PreMarketWindow
    /\ ~is_market_open(day, clock)
    /\ ~(Hour(clock) >= 15 /\ Minute(clock) >= 15)
    /\ Sleep(5, authToday, preToday)
    /\ obs' = [NoObs EXCEPT !.op = "run_wait"]
    /\ UNCHANGED <<pc, pre_market_done, trading_done, position_mgr, pivot_data, candle_count>>
    /\ OperatorUnchanged
    /\ UNCHANGED token_file

\* one iteration of the trading loop while the market is open
TradingCycle ==
    /\ pc = "trading"
    /\ running
    /\ is_market_open(day, clock)
    /\ position_mgr # None
    /\ \E inCE \in AnalysisInputs, inPE \in AnalysisInputs :
         \E c \in {Cycle(position_mgr, pivot_data, candle_count, inCE, inPE, clock)} :
             /\ c.pm.trade_counter <= MaxTrades
             /\ position_mgr' = c.pm
             /\ candle_count' = c.candle_count
             /\ obs' = [NoObs EXCEPT !.op = "trading_cycle", !.opens = c.opens,
                                     !.closes = c.closes, !.refused = c.refused,
                                     !.reasons = c.reasons, !.prices = c.prices,
                                     !.errors = c.errors]
    /\ Sleep(3, authToday, preToday)
    /\ UNCHANGED <<pc, pre_market_done, trading_done, control, pivot_data>>
    /\ OperatorUnchanged
    /\ UNCHANGED token_file

\* an iteration that raises (no PositionManager exists): error alert, 1 minute pause
TradingCycleError ==
    /\ pc = "trading"
    /\ running
    /\ is_market_open(day, clock)
    /\ position_mgr = None
    /\ obs' = [NoObs EXCEPT !.op = "trading_cycle", !.raised = TRUE,
                            !.errors = 1, !.alerts = 1]
    /\ Sleep(1, authToday, preToday)
    /\ UNCHANGED <<pc, pre_market_done, trading_done, control, position_mgr, pivot_data,
                   candle_count>>
    /\ OperatorUnchanged
    /\ UNCHANGED token_file

\* self.running is false or the market is closed: the loop ends, run() sets
\* trading_done and goes to cleanup
TradingLoopExit ==
    /\ pc = "trading"
    /\ (~running \/ ~is_market_open(day, clock))
    /\ pc' = "eod"
    /\ trading_done' = TRUE
    /\ obs' = [NoObs EXCEPT !.op = "trading_loop_exit"]
    /\ UNCHANGED <<day, clock, pre_market_done, control, position_mgr, pivot_data,
                   candle_count, authToday, preToday>>
    /\ OperatorUnchanged
    /\ UNCHANGED token_file

EndOfDayCleanup ==
    /\ pc = "eod"
    /\ \E ltp \in LtpValues :
         \E e \in {end_of_day_cleanup(position_mgr, ltp)} :
             /\ position_mgr' = e.pm
             /\ obs' = [NoObs EXCEPT !.op = "end_of_day_cleanup", !.raised = e.raised,
                                     !.closes = e.closes, !.reasons = e.reasons,
                                     !.prices = e.prices, !.ltp = ltp]
    /\ pc' = "run"
    /\ UNCHANGED <<day, clock, pre_market_done, trading_done, control, pivot_data,
                   candle_count, authToday, preToday>>
    /\ OperatorUnchanged
    /\ UNCHANGED token_file

\* SIGINT or SIGTERM is delivered: the registered handler runs between two
\* steps of the core and clears the flag; a sleep in progress goes on
Shutdown ==
    /\ pc \in {"run", "trading", "eod"}
    /\ running
    /\ running' = FALSE
    /\ obs' = [NoObs EXCEPT !.op = "shutdown"]
    /\ UNCHANGED <<pc, day, clock, pre_market_done, trading_done, control, position_mgr,
                   pivot_data, candle_count, controlFile, opControl, opPc, authToday,
                   preToday, opLast, exitIn, exitOut, unitIn, unitOut, token_file,
                   server, handler, client>>

\* operator commands: the handler updates its control dict and saves it
enable_trading(c) == [c EXCEPT !.trading_enabled = TRUE, !.panic_mode = FALSE]
disable_trading(c) == [c EXCEPT !.trading_enabled = FALSE]
panic(c) == [c EXCEPT !.panic_mode = TRUE, !.trading_enabled = FALSE]

Commanded(c) == {enable_trading(c), disable_trading(c), panic(c)}

\* (a command that leaves the record as it is only refreshes last_updated)
OpCommand ==
    /\ pc \in {"run", "trading", "eod"}
    /\ \E c \in Commanded(opControl) :
         /\ c # controlFile
         /\ opControl' = c
         /\ controlFile' = c
         /\ opLast' = c
    /\ UNCHANGED <<pc, day, clock, pre_market_done, trading_done, control, position_mgr,
                   pivot_data, candle_count, opPc, obs, authToday, preToday, exitIn, exitOut,
                   unitIn, unitOut, running, token_file, server, handler, client>>

Next ==
    \/ RunPanic
    \/ RunNotTradingDay
    \/ RunResetFlags
    \/ RunWaitPreMarket
    \/ RunAuthFail
    \/ RunPreMarketFail
    \/ RunPreMarketOk
    \/ RunMarketOpen
    \/ RunAfterClose
    \/ RunWait
    \/ TradingCycle
    \/ TradingCycleError
    \/ TradingLoopExit
    \/ EndOfDayCleanup
    \/ Shutdown
    \/ OpCommand

Spec == Init /\ [][Next]_vars

TypeOK ==
    /\ pc \in {"run", "trading", "eod", "exited"}
    /\ day \in 0..MaxDay
    /\ clock \in Times
    /\ position_mgr # None => position_mgr.trade_counter \in 0..MaxTrades

\* a step of the core, as opposed to a command of the operator
CoreStep == controlFile' = controlFile

\* C2: with max_re_entries = 1, once two positions have been closed with
\* reason STOP_LOSS the ledger stays empty: can_re_enter() is false and the
\* trading loop opens no third position, whatever entry signals arrive.
C2_ReEntryGate ==
    position_mgr # None =>
        /\ position_mgr.stop_loss_count <= max_re_entries + 1
        /\ position_mgr.stop_loss_count > max_re_entries =>
              /\ ~can_re_enter(position_mgr)
              /\ ~has_position(position_mgr)

C2_Witness ==
    /\ pc = "trading"
    /\ position_mgr # None
    /\ position_mgr.stop_loss_count = max_re_entries + 1
    /\ position_mgr.trade_counter = max_re_entries + 1
    /\ obs.op = "trading_cycle"
    /\ obs.refused > 0

\* C4: a trading-loop iteration that starts while panic_mode is set in the
\* control record leaves the loop for end-of-day cleanup with the position
\* closed (reason PANIC) and opens nothing.
C4_PanicEndsLoop ==
    [][ (pc = "trading" /\ authToday /\ preToday /\ controlFile.panic_mode /\ CoreStep)
            => (pc' = "eod" /\ obs'.opens = 0 /\ obs'.reasons \in {<<>>, <<"PANIC">>}) ]_vars

\* C6: from the wake time (08:00) of a trading day on, a set pre_market_done
\* flag stems from that day: the flags of the previous day have been reset.
C6_FlagsResetOnWake ==
    (pc = "run" /\ is_trading_day(day) /\ clock >= 480 /\ pre_market_done) => preToday

\* C7: the trading loop runs only on a day on which authentication and
\* pre-market setup have both succeeded.
C7_TradingAfterAuthAndPreMarket ==
    pc = "trading" => (authToday /\ preToday)

\* C8: once the clock has passed 09:00 without a successful authentication on
\* that day, no further authenticate() call is started that day.
C8_NoAuthAfterNine ==
    [][ (CoreStep /\ pc = "run" /\ obs'.auth = 1) => ~(clock >= 540 /\ ~authToday) ]_vars

\* C9: a trading-loop cycle makes at most one call to open_position or
\* close_position in total.
C9_OneDecisionPerCycle ==
    obs.op = "trading_cycle" => obs.opens + obs.closes <= 1

\* C10: when end_of_day_cleanup completes no position is open; a position that
\* was still open is closed with reason EOD at the last traded price, or at
\* its entry price when no last traded price is available, and the close
\* leaves stop_loss_count as it was.
C10_CleanupClosesAtEOD ==
    [][ (pc = "eod" /\ pc' = "run" /\ position_mgr # None) =>
          /\ ~has_position(position_mgr')
          /\ position_mgr'.stop_loss_count = position_mgr.stop_loss_count
          /\ has_position(position_mgr) =>
                /\ obs'.reasons = <<"EOD">>
                /\ obs'.prices =
                     <<IF obs'.ltp = None \/ obs'.ltp.price = 0
                       THEN position_mgr.position.entry_price
                       ELSE obs'.ltp.price>> ]_vars

C10_Witness ==
    /\ pc = "run"
    /\ obs.op = "end_of_day_cleanup"
    /\ obs.closes = 1
    /\ obs.ltp = None
    /\ obs.reasons = <<"EOD">>
    /\ position_mgr # None
    /\ ~has_position(position_mgr)

\* C27: an exception raised inside a trading cycle does not end the loop
\* and is reported once: the cycle stays in the trading loop and makes one
\* error alert per exception raised.
C27_CycleErrorsReported ==
    [][ (pc = "trading" /\ CoreStep /\ obs'.op = "trading_cycle" /\ obs'.errors > 0)
            => (pc' = "trading" /\ obs'.alerts = obs'.errors) ]_vars

\* C23: a trading cycle that runs while trading_enabled is false in the
\* control record opens no position (closing an open one stays possible).
C23_DisabledOpensNothing ==
    [][ (pc = "trading" /\ CoreStep /\ ~controlFile.trading_enabled
            /\ obs'.op = "trading_cycle") => obs'.opens = 0 ]_vars

\* C28: once the shutdown flag is set (self.running is false) the core begins
\* no further trading cycle and no further authentication attempt.
C28_NothingNewAfterShutdown ==
    ~running => (obs.op # "trading_cycle" /\ obs.auth = 0)

\* C30: when end_of_day_cleanup() has run, the token file is gone, so that no
\* later authenticate() can reuse the day's token.
C30_TokenClearedAtEndOfDay ==
    [][ (pc = "eod" /\ CoreStep /\ obs'.op = "end_of_day_cleanup")
            => token_file' = Absent ]_vars

----------------------------------------------------------------------------
(* The control record under concurrent access: the operator's               *)
(* save_control_state and the core's load_control_state, split at their     *)
(* file operations.                                                          *)

Empty == [tag |-> "Empty"]

MaxStamp == 2

\* the record with its last_updated entry (0: None, n: the time of the n-th save)
Stamped(c, n) ==
    [trading_enabled |-> c.trading_enabled, panic_mode |-> c.panic_mode,
     last_updated |-> n]

InitCtl ==
    /\ pc = "ctl_idle"
    /\ day = 0
    /\ clock = 0
    /\ pre_market_done = FALSE
    /\ trading_done = FALSE
    /\ controlFile \in {Stamped(c, 0) : c \in Commanded(DefaultControl)}
    /\ control = controlFile
    /\ position_mgr = None
    /\ pivot_data = [o \in OptionTypes |-> None]
    /\ candle_count = 0
    /\ opControl = controlFile
    /\ opPc = "idle"
    /\ obs = NoObs
    /\ authToday = FALSE
    /\ preToday = FALSE
    /\ opLast = None
    /\ exitIn = NoExitIn
    /\ exitOut = NoExit
    /\ unitIn = None
    /\ unitOut = None
    /\ running = TRUE
    /\ token_file = Absent
    /\ server = NewServer
    /\ handler = IdleHandler
    /\ client = IdleClient

CtlUnchanged ==
    UNCHANGED <<day, pre_market_done, trading_done, position_mgr, pivot_data,
                candle_count, obs, authToday, preToday, exitIn, exitOut, unitIn, unitOut,
                running, token_file, server, handler, client>>

\* a command handler sets its dict; save_control_state stamps it and opens the
\* file for writing
CtlOpOpen ==
    /\ opPc = "idle"
    /\ clock < MaxStamp
    /\ clock' = clock + 1
    /\ \E c \in Commanded(opControl) : opControl' = Stamped(c, clock')
    /\ controlFile' = Empty
    /\ opPc' = "dump"
    /\ UNCHANGED <<pc, control, opLast>>
    /\ CtlUnchanged

\* json.dump and close
CtlOpDump ==
    /\ opPc = "dump"
    /\ controlFile' = opControl
    /\ opLast' = opControl
    /\ opPc' = "idle"
    /\ UNCHANGED <<pc, clock, control, opControl>>
    /\ CtlUnchanged

\* load_control_state: json.load succeeds
CtlCoreLoad ==
    /\ pc = "ctl_idle"
    /\ controlFile # Empty
    /\ control' = controlFile
    /\ UNCHANGED <<pc, clock, controlFile, opControl, opPc, opLast>>
    /\ CtlUnchanged

\* load_control_state: json.load raises, the except branch takes the defaults
CtlCoreLoadFails ==
    /\ pc = "ctl_idle"
    /\ controlFile = Empty
    /\ control' = Stamped(DefaultControl, 0)
    /\ pc' = "ctl_except"
    /\ UNCHANGED <<clock, controlFile, opControl, opPc, opLast>>
    /\ CtlUnchanged

\* ... opens the file for writing
CtlCoreOpen ==
    /\ pc = "ctl_except"
    /\ controlFile' = Empty
    /\ pc' = "ctl_dump"
    /\ UNCHANGED <<clock, control, opControl, opPc, opLast>>
    /\ CtlUnchanged

\* ... and dumps the defaults into it
CtlCoreDump ==
    /\ pc = "ctl_dump"
    /\ controlFile' = control
    /\ pc' = "ctl_idle"
    /\ UNCHANGED <<clock, control, opControl, opPc, opLast>>
    /\ CtlUnchanged

NextCtl ==
    \/ CtlOpOpen
    \/ CtlOpDump
    \/ CtlCoreLoad
    \/ CtlCoreLoadFails
    \/ CtlCoreOpen
    \/ CtlCoreDump

SpecCtl == InitCtl /\ [][NextCtl]_vars

\* C5: whenever the operator is not in the middle of a write, the persisted
\* record is the one the operator wrote last: the core never writes over it.
C5_OperatorValueKept ==
    (opPc = "idle" /\ opLast # None) => controlFile = opLast

----------------------------------------------------------------------------
(* Unit specifications of the pure functions: Init draws the inputs, one     *)
(* action applies the function.                                              *)

UnitIdle ==
    /\ SchedulerIdle
    /\ position_mgr = None
    /\ obs = NoObs
    /\ exitIn = NoExitIn
    /\ exitOut = NoExit

UnitUnchanged ==
    /\ SchedulerUnchanged
    /\ UNCHANGED <<position_mgr, obs, exitIn, exitOut>>

----------------------------------------------------------------------------
(* SignalGenerator.generate_entry_signal and the three scenario matchers *)

SigPivots == {calculate_pivots(6000, 3000, 6000), calculate_pivots(9000, 6000, 7500)}

SigPrices == {4000, 4500, 5000, 6000, 7000, 7500, 8000, 9000, 10000, 10500, 12000, 12500}

SigCandles == [open : SigPrices, low : {3000}, close : SigPrices]

\* 09:15 (first candle), 10:00 (intraday), 15:40 (after the market's end)
SigTimes == {555, 600, 940}

Structures == {"BULLISH", "NEUTRAL", "BEARISH"}

InitSig ==
    /\ UnitIdle
    /\ pc = "sig_in"
    /\ unitIn \in [candle : SigCandles, significant : BOOLEAN, pivots : SigPivots,
                    structure : Structures, now : SigTimes]
    /\ unitOut = None

SigGenerate ==
    /\ pc = "sig_in"
    /\ pc' = "sig_out"
    /\ unitOut' = [signal |-> generate_entry_signal(unitIn.candle, unitIn.significant,
                                                    unitIn.pivots, unitIn.structure,
                                                    "CE", unitIn.now)]
    /\ UNCHANGED unitIn
    /\ UnitUnchanged

\* the three matchers called on their own, with the flag of the clock
SigScenarios ==
    /\ pc = "sig_in"
    /\ pc' = "scen_out"
    /\ LET first == is_first_candle_time(unitIn.now)
       IN  unitOut' =
             [r1 |-> check_scenario_1(unitIn.candle, unitIn.pivots, first, unitIn.structure),
              r2 |-> check_scenario_2(unitIn.candle, unitIn.pivots, first, unitIn.structure),
              r3 |-> check_scenario_3(unitIn.candle, unitIn.pivots, first, unitIn.structure)]
    /\ UNCHANGED unitIn
    /\ UnitUnchanged

NextSig == SigGenerate \/ SigScenarios

SpecSig == InitSig /\ [][NextSig]_vars

\* the four preconditions and the rules of the scenario table, on the inputs
SigFirst == 555 <= unitIn.now /\ unitIn.now <= 561
SigInHours == market_start <= unitIn.now /\ unitIn.now <= market_end
SigGreen == unitIn.candle.close > unitIn.candle.open
SigPre == SigInHours /\ unitIn.structure = "BULLISH" /\ SigGreen /\ unitIn.significant

Rule1 ==
    /\ unitIn.candle.close > unitIn.pivots.R1
    /\ SigFirst => /\ unitIn.pivots.S1 <= unitIn.candle.open
                   /\ unitIn.candle.open <= unitIn.pivots.PP

Rule2 ==
    /\ unitIn.pivots.R2 < unitIn.candle.close
    /\ unitIn.candle.close < unitIn.pivots.R3
    /\ SigFirst => /\ unitIn.pivots.PP <= unitIn.candle.open
                   /\ unitIn.candle.open <= unitIn.pivots.R1

Rule3 ==
    /\ ~SigFirst
    /\ unitIn.pivots.R2 <= unitIn.candle.open
    /\ unitIn.candle.open <= unitIn.pivots.R3
    /\ unitIn.candle.close > unitIn.pivots.R3

\* C11: for inputs that pass the preconditions, the emitted signal carries
\* the lowest-numbered scenario whose rule the candle satisfies (1 before 2
\* before 3), and no signal is emitted when no rule is satisfied.
C11_ScenarioPrecedence ==
    (pc = "sig_out" /\ SigPre) =>
        /\ Rule1 => (unitOut.signal # None /\ unitOut.signal.scenario = 1)
        /\ (~Rule1 /\ Rule2) => (unitOut.signal # None /\ unitOut.signal.scenario = 2)
        /\ (~Rule1 /\ ~Rule2 /\ Rule3) =>
               (unitOut.signal # None /\ unitOut.signal.scenario = 3)
        /\ (~Rule1 /\ ~Rule2 /\ ~Rule3) => unitOut.signal = None

C11_Witness ==
    /\ pc = "sig_out"
    /\ SigPre
    /\ Rule1
    /\ Rule2
    /\ unitOut.signal # None
    /\ unitOut.signal.scenario = 1

\* C12: at most one of check_scenario_1, check_scenario_2 and
\* check_scenario_3 matches, for every candle, pivot set and first-candle flag.
C12_ScenariosExclusive ==
    pc = "scen_out" =>
        /\ ~(unitOut.r1 # NoScenario /\ unitOut.r2 # NoScenario)
        /\ ~(unitOut.r1 # NoScenario /\ unitOut.r3 # NoScenario)
        /\ ~(unitOut.r2 # NoScenario /\ unitOut.r3 # NoScenario)

\* C13: an intraday candle that passes the preconditions, opens in [R2, R3]
\* and closes above R3 yields a scenario 3 signal with target R5.
C13_ScenarioThreeEmitted ==
    (pc = "sig_out" /\ SigPre /\ Rule3) =>
        /\ unitOut.signal # None
        /\ unitOut.signal.scenario = 3
        /\ unitOut.signal.target = unitIn.pivots.R5

\* C14: a candle that passes the preconditions and closes strictly between R2
\* and R3 (opening in [PP, R1] on the first candle) yields a scenario 2 signal
\* with target R4.
C14_ScenarioTwoEmitted ==
    (pc = "sig_out" /\ SigPre /\ Rule2) =>
        /\ unitOut.signal # None
        /\ unitOut.signal.scenario = 2
        /\ unitOut.signal.target = unitIn.pivots.R4

\* C15: a signal is emitted only when the time is within market hours, the
\* structure is BULLISH, the candle is green and the candle is significant.
C15_PreconditionsGate ==
    (pc = "sig_out" /\ unitOut.signal # None) => SigPre

C15_Witness ==
    /\ pc = "sig_out"
    /\ SigInHours
    /\ unitIn.structure = "BULLISH"
    /\ unitIn.significant
    /\ ~SigGreen
    /\ Rule1
    /\ unitOut.signal = None

----------------------------------------------------------------------------
(* PivotCalculator.calculate_pivots *)

MaxSpread == 7

\* 100.00 .. 100.07
PivPrices == 10000..(10000 + MaxSpread)

InitPiv ==
    /\ UnitIdle
    /\ pc = "piv_in"
    /\ unitIn \in {x \in [high : PivPrices, low : PivPrices, close : PivPrices] :
                      x.high >= x.low}
    /\ unitOut = None

PivCalculate ==
    /\ pc = "piv_in"
    /\ pc' = "piv_out"
    /\ unitOut' = calculate_pivots(unitIn.high, unitIn.low, unitIn.close)
    /\ UNCHANGED unitIn
    /\ UnitUnchanged

NextPiv == PivCalculate

SpecPiv == InitPiv /\ [][NextPiv]_vars

StrictlyOrdered(pv) ==
    /\ pv.S3 < pv.S2 /\ pv.S2 < pv.S1 /\ pv.S1 < pv.PP /\ pv.PP < pv.R1
    /\ pv.R1 < pv.R2 /\ pv.R2 < pv.R3 /\ pv.R3 < pv.R4 /\ pv.R4 < pv.R5

\* C16 (as stated): for every high, low, close with high >= low the levels
\* are in strict order S3 < S2 < S1 < PP < R1 < R2 < R3 < R4 < R5.
C16_StrictOrder ==
    pc = "piv_out" => StrictlyOrdered(unitOut)

\* C16 (amended): the levels are in strict order whenever
\* low <= close <= high and high - low >= 0.03; a flat or nearly flat day
\* (high = low, or a range below 0.03) yields equal neighbouring levels.
C16_StrictOrderOnRange ==
    (/\ pc = "piv_out"
     /\ unitIn.low <= unitIn.close
     /\ unitIn.close <= unitIn.high
     /\ unitIn.high - unitIn.low >= 3) => StrictlyOrdered(unitOut)

C16_Witness ==
    /\ pc = "piv_out"
    /\ unitIn.close = unitIn.low
    /\ unitIn.high - unitIn.low = 3
    /\ unitOut.R2 = unitOut.R1 + 2
    /\ StrictlyOrdered(unitOut)

\* C37: a signal emitted for pivots in strict order and a candle with
\* low <= close has stop_loss <= entry_price < target.
C37_EntryBelowTarget ==
    (/\ pc = "sig_out"
     /\ unitOut.signal # None
     /\ StrictlyOrdered(unitIn.pivots)
     /\ unitIn.candle.low <= unitIn.candle.close)
        => /\ unitOut.signal.stop_loss <= unitOut.signal.entry_price
           /\ unitOut.signal.entry_price < unitOut.signal.target

----------------------------------------------------------------------------
(* PivotCalculator.get_atm_strike *)

strike_interval == 100

\* round(): to the nearest integer, a tie goes to the even one
RoundHalfEven(num, den) ==
    LET q == num \div den
        r == num % den
    IN  IF 2 * r < den THEN q
        ELSE IF 2 * r > den THEN q + 1
        ELSE IF q % 2 = 0 THEN q ELSE q + 1

\* spot and the strike returned are in hundredths, like every price
get_atm_strike(spot_price) ==
    RoundHalfEven(spot_price, strike_interval * 100) * (strike_interval * 100)

\* the while loop of get_strikes_to_analyze, from current up to last
RECURSIVE StrikesFrom(_, _)
StrikesFrom(current, last) ==
    IF current <= last
    THEN <<current>> \o StrikesFrom(current + strike_interval * 100, last)
    ELSE <<>>

\* (variant: the loop stops before atm + strike_range)
get_strikes_to_analyze_open(spot_price, strike_range) ==
    LET atm == get_atm_strike(spot_price)
    IN  StrikesFrom(atm - strike_range * 100, atm + strike_range * 100 - 1)

\* strike_range: self.strike_range, in points
get_strikes_to_analyze(spot_price, strike_range) ==
    LET atm == get_atm_strike(spot_price)
    IN  StrikesFrom(atm - strike_range * 100, atm + strike_range * 100)

\* config['trading']['strike_range']: 500 as configured, and a range that is
\* no multiple of the interval
StrikeRanges == {450, 500}

MaxSpotSteps == 20

\* 80000.00, 80025.00, ... and the prices 0.01 below and above each
AtmSpots == {8000000 + 2500 * i + e : i \in 0..MaxSpotSteps, e \in {-1, 0, 1}}

InitAtm ==
    /\ UnitIdle
    /\ pc = "atm_in"
    /\ unitIn \in [spot : AtmSpots, range : StrikeRanges]
    /\ unitOut = None

AtmStrike ==
    /\ pc = "atm_in"
    /\ pc' = "atm_out"
    /\ unitOut' = [strike |-> get_atm_strike(unitIn.spot)]
    /\ UNCHANGED unitIn
    /\ UnitUnchanged

AtmStrikes ==
    /\ pc = "atm_in"
    /\ pc' = "strikes_out"
    /\ unitOut' = [strikes |-> get_strikes_to_analyze(unitIn.spot, unitIn.range)]
    /\ UNCHANGED unitIn
    /\ UnitUnchanged

NextAtm == AtmStrike \/ AtmStrikes

SpecAtm == InitAtm /\ [][NextAtm]_vars

\* C17: get_atm_strike returns the multiple of the strike interval nearest
\* to the spot price, and get_atm_strike(80150) with interval 100 is 80100.
C17_AtmStrike ==
    pc = "atm_out" =>
        /\ unitOut.strike % (strike_interval * 100) = 0
        /\ 2 * Abs(unitOut.strike - unitIn.spot) <= strike_interval * 100
        /\ unitIn.spot = 8015000 => unitOut.strike = 8010000

\* C32: get_strikes_to_analyze lists, ascending and one interval apart, every
\* strike from ATM - range up to ATM + range, ATM being get_atm_strike of the
\* spot; when range is a multiple of the interval the list has
\* 2 * range / interval + 1 entries, ends at ATM + range and has ATM in the middle.
C32_StrikeList ==
    pc = "strikes_out" =>
        LET strikes == unitOut.strikes
            atm == get_atm_strike(unitIn.spot)
            step == strike_interval * 100
            range == unitIn.range * 100
            n == Len(strikes)
        IN  /\ n >= 1
            /\ strikes[1] = atm - range
            /\ \A i \in 1..(n - 1) : strikes[i + 1] = strikes[i] + step
            /\ strikes[n] <= atm + range
            /\ strikes[n] + step > atm + range
            /\ range % step = 0 =>
                  /\ n = 2 * (range \div step) + 1
                  /\ strikes[n] = atm + range
                  /\ strikes[(n + 1) \div 2] = atm

\* spot 80149.99 with range 500: eleven strikes, 79600 to 80600, 80100 in the middle
C32_Witness ==
    /\ pc = "strikes_out"
    /\ unitIn.spot = 8014999
    /\ unitIn.range = 500
    /\ Len(unitOut.strikes) = 11
    /\ unitOut.strikes[1] = 7960000
    /\ unitOut.strikes[6] = 8010000
    /\ unitOut.strikes[11] = 8060000

----------------------------------------------------------------------------
(* AuthManager: the token file, load_access_token and authenticate *)

\* day 1 at 06:00, 07:59, 08:00 and 08:01
AuthNows == {360, 479, 480, 481}

InitAuth ==
    /\ UnitIdle
    /\ pc = "auth_in"
    /\ unitIn \in {x \in [file : TokenFiles, today : {1}, now : AuthNows, env : AuthEnvs] :
                      (x.file.kind \in {"dated", "undated", "malformed"}
                         /\ x.file.day = x.today) => x.file.minute <= x.now}
    /\ unitOut = None

AuthLoad ==
    /\ pc = "auth_in"
    /\ pc' = "load_out"
    /\ unitOut' = [token |-> load_access_token(unitIn.file, unitIn.today)]
    /\ UNCHANGED unitIn
    /\ UnitUnchanged

AuthAuthenticate ==
    /\ pc = "auth_in"
    /\ pc' = "auth_out"
    /\ unitOut' = authenticate(unitIn.file, unitIn.today, unitIn.now, unitIn.env)
    /\ UNCHANGED unitIn
    /\ UnitUnchanged

NextAuth == AuthLoad \/ AuthAuthenticate

SpecAuth == InitAuth /\ [][NextAuth]_vars

\* C18: a stored token is reused only inside its freshness window: issued
\* today at or after 06:00 and not more than 2 hours old.
C18_FreshnessWindow ==
    (pc = "auth_out" /\ unitOut.reused) =>
        /\ unitIn.file.day = unitIn.today
        /\ unitIn.file.minute >= 360
        /\ unitIn.now - unitIn.file.minute <= 120

\* C19: load_access_token returns a token only when the record carries an
\* issue date and that date is today.
C19_DatedTodayOnly ==
    (pc = "load_out" /\ unitOut.token # None) =>
        (unitIn.file.kind = "dated" /\ unitIn.file.day = unitIn.today)

FailureNotes(notes) ==
    Cardinality({i \in DOMAIN notes : notes[i] \in {"error_alert", "auth_failure"}})

\* C20: no failure leaves authenticate as an exception, and every failing
\* outcome is returned after exactly one failure notification.
C20_FailuresReported ==
    pc = "auth_out" =>
        /\ ~unitOut.raised
        /\ unitOut.result = None => FailureNotes(unitOut.notes) = 1

\* C21: the token record is written only with a token that has already
\* passed live validation (exchange, validate, persist), so a token that
\* fails validation is never left in the record.
C21_PersistAfterValidate ==
    (pc = "auth_out" /\ unitOut.file # unitIn.file) => unitIn.env.new_valid

\* C22: authenticate returns a token only if live validation succeeded for
\* that very token during the call, for a reused token and for a new one.
C22_ReturnedTokenValidated ==
    (pc = "auth_out" /\ unitOut.result # None) =>
        \/ /\ unitOut.reused
           /\ unitOut.result = load_access_token(unitIn.file, unitIn.today)
           /\ unitIn.env.existing_valid
        \/ /\ ~unitOut.reused
           /\ unitOut.result = NewToken
           /\ unitIn.env.new_valid

C22_Witness ==
    /\ pc = "auth_out"
    /\ unitOut.result = NewToken
    /\ ~unitOut.reused
    /\ ~unitIn.env.existing_valid
    /\ load_access_token(unitIn.file, unitIn.today) # None

----------------------------------------------------------------------------
(* PivotTradingSystem.analyze_candle on its own *)

\* a ledger with no position, and ledgers holding one
AnaManagers ==
    {NewPositionManager(0)}
    \cup {open_position(NewPositionManager(0), sg).pm :
            sg \in {x \in SignalsPM : x.option_type = "CE" /\ x.is_first_candle}}
    \cup {open_position(NewPositionManager(0), Signal(ot, 7500, 4500, 9000, 1, FALSE)).pm :
            ot \in OptionTypes}

AnaInputs ==
    [candle : LoopCandles \cup {None}, enough : BOOLEAN, significant : BOOLEAN,
     raises : BOOLEAN]

InitAna ==
    /\ UnitIdle
    /\ pc = "ana_in"
    /\ unitIn \in [pm : AnaManagers,
                   pdata : {[o \in OptionTypes |-> StoredPivots(d[o])] : d \in DayOHLC},
                   count : {0},
                   ot : OptionTypes,
                   in : AnaInputs,
                   other : AnalysisInputs,
                   now : {555, 600}]
    /\ unitOut = None

AnaAnalyze ==
    /\ pc = "ana_in"
    /\ pc' = "ana_out"
    /\ unitOut' = analyze_candle(unitIn.pm, unitIn.pdata, unitIn.count, unitIn.ot,
                                 unitIn.in, unitIn.now)
    /\ UNCHANGED unitIn
    /\ UnitUnchanged

\* one pass of the trading loop body: in is what analyze_candle fetches for
\* 'CE', other what it fetches for 'PE'
AnaCycle ==
    /\ pc = "ana_in"
    /\ pc' = "cyc_out"
    /\ unitOut' = Cycle(unitIn.pm, unitIn.pdata, unitIn.count, unitIn.in, unitIn.other,
                        unitIn.now)
    /\ UNCHANGED unitIn
    /\ UnitUnchanged

NextAna == AnaAnalyze \/ AnaCycle

SpecAna == InitAna /\ [][NextAna]_vars

\* C29: when get_recent_candles returns fewer than 10 candles for a symbol,
\* analyze_candle yields no entry signal for it, whatever the candle is.
C29_ShortWindowNoEntry ==
    (pc = "ana_out" /\ ~unitIn.in.enough) => unitOut.kind # "entry"

\* a short window on a candle that would otherwise have given an entry signal
C29_Witness ==
    /\ pc = "ana_out"
    /\ ~unitIn.in.enough
    /\ ~unitIn.in.raises
    /\ unitIn.in.candle # None
    /\ ~has_position(unitIn.pm)
    /\ unitIn.pdata[unitIn.ot] # None
    /\ generate_entry_signal(unitIn.in.candle, unitIn.in.significant,
                             unitIn.pdata[unitIn.ot].pivots,
                             unitIn.pdata[unitIn.ot].structure,
                             unitIn.ot, unitIn.now) # None
    /\ unitOut = NoResult

\* C36: a cycle of the trading loop that runs at or after eod_exit_time opens
\* no position.
C36_NoEntryAfterCutoff ==
    [][(pc = "trading" /\ clock >= eod_exit_time /\ obs'.op = "trading_cycle")
            => obs'.opens = 0]_vars

\* C34: a cycle closes the open position only on the candle of the position's
\* own option: when that candle is missing or its close lies strictly between
\* the stop-loss and the target, the cycle closes nothing (no timeout and no
\* end-of-day exit is due at the instants checked).
C34_ExitOnOwnSymbolOnly ==
    (pc = "cyc_out" /\ has_position(unitIn.pm)) =>
        LET position == unitIn.pm.position
            own == IF position.option_type = "CE" THEN unitIn.in ELSE unitIn.other
            quiet == IF own.candle = None THEN TRUE
                     ELSE /\ own.candle.close > position.stop_loss
                          /\ own.candle.close < position.target
        IN  quiet => unitOut.closes = 0

\* C35: with a position open and a candle of its option fetched, analyze_candle
\* returns what check_exit_conditions decides on that candle, whatever the
\* length of the history and whether or not pivots are stored.
C35_ExitAlwaysEvaluated ==
    (/\ pc = "ana_out"
     /\ has_position(unitIn.pm)
     /\ unitIn.pm.position.option_type = unitIn.ot
     /\ ~unitIn.in.raises
     /\ unitIn.in.candle # None)
        => LET x == check_exit_conditions(unitIn.pm.position, unitIn.in.candle.close,
                                          unitIn.count, unitIn.now)
           IN  x.should_exit =>
                   (/\ unitOut.kind = "exit"
                    /\ unitOut.reason = x.reason
                    /\ unitOut.price = x.price)

----------------------------------------------------------------------------
(* The request-token hand-off: auth_server.py's handle_callback, get_token  *)
(* and clear_token, which Flask runs in one thread per request, and the     *)
(* core's wait_for_request_token polling get_token.  clock counts seconds.  *)

auth_timeout == 300
auth_retry_sleep == 300
poll_sleep == 2

MaxLogins == 2
MaxSrvClock == 610
TickSteps == {150, 151}

Response(code, token, stamp) == [code |-> code, request_token |-> token, timestamp |-> stamp]

\* get_token_age as get_token calls it: 0 when no timestamp is stored
get_token_age(stamp, now) == IF stamp = None THEN 0 ELSE now - stamp.at

InitSrv ==
    /\ UnitIdle
    /\ pc = "srv"
    /\ unitIn = None
    /\ unitOut = None

SrvUnchanged ==
    UNCHANGED <<pc, day, pre_market_done, trading_done, control, position_mgr, pivot_data,
                candle_count, controlFile, opControl, opPc, obs, authToday, preToday,
                opLast, exitIn, exitOut, unitIn, unitOut, running, token_file>>

SrvTick ==
    /\ pc = "srv"
    /\ \E d \in TickSteps :
         /\ clock + d <= MaxSrvClock
         /\ clock' = clock + d
    /\ UNCHANGED <<server, handler, client>>
    /\ SrvUnchanged

\* authenticate() sends the login link and enters wait_for_request_token; a
\* call after an earlier one comes no sooner than run()'s retry sleep
CliSendLink ==
    /\ pc = "srv"
    /\ client.pc \in {"idle", "returned", "expired", "timeout"}
    /\ client.login < MaxLogins
    /\ client.pc # "idle" => clock >= client.ended_at + auth_retry_sleep
    /\ client' = [pc |-> "waiting", login |-> client.login + 1, sent_at |-> clock,
                  next_poll |-> clock, ended_at |-> client.ended_at, result |-> None]
    /\ UNCHANGED <<clock, server, handler>>
    /\ SrvUnchanged

\* "while time.time() - start_time < timeout": requests.get(token_url)
CliPoll ==
    /\ pc = "srv"
    /\ client.pc = "waiting"
    /\ clock >= client.next_poll
    /\ clock - client.sent_at < auth_timeout
    /\ handler.get = "idle"
    /\ client' = [client EXCEPT !.pc = "polling"]
    /\ handler' = [handler EXCEPT !.get = "check", !.response = None]
    /\ UNCHANGED <<clock, server>>
    /\ SrvUnchanged

\* the loop condition fails: "Timeout waiting for request token"
CliTimeout ==
    /\ pc = "srv"
    /\ client.pc = "waiting"
    /\ clock >= client.next_poll
    /\ clock - client.sent_at >= auth_timeout
    /\ client' = [client EXCEPT !.pc = "timeout", !.ended_at = clock]
    /\ UNCHANGED <<clock, server, handler>>
    /\ SrvUnchanged

\* the response arrives: 200 with status success returns the token, 410
\* returns None, anything else sleeps 2 seconds and polls again
CliReceive ==
    /\ pc = "srv"
    /\ client.pc = "polling"
    /\ handler.get = "done"
    /\ handler' = [handler EXCEPT !.get = "idle"]
    /\ client' = IF handler.response.code = 200
                 THEN [client EXCEPT !.pc = "returned", !.ended_at = clock,
                                     !.result = handler.response.request_token]
                 ELSE IF handler.response.code = 410
                 THEN [client EXCEPT !.pc = "expired", !.ended_at = clock]
                 ELSE [client EXCEPT !.pc = "waiting", !.next_poll = clock + poll_sleep]
    /\ UNCHANGED <<clock, server>>
    /\ SrvUnchanged

\* get_token, "if not self.request_token": 404
GtCheck ==
    /\ pc = "srv"
    /\ handler.get = "check"
    /\ handler' = IF server.request_token = None
                  THEN [handler EXCEPT !.get = "done", !.response = Response(404, None, None)]
                  ELSE [handler EXCEPT !.get = "age"]
    /\ UNCHANGED <<clock, server, client>>
    /\ SrvUnchanged

\* "age = self.get_token_age()" and the test "age > self.auth_timeout"
GtAge ==
    /\ pc = "srv"
    /\ handler.get = "age"
    /\ \E age \in {get_token_age(server.token_timestamp, clock)} :
         handler' = [handler EXCEPT !.age = age, !.stamp = server.token_timestamp,
                                    !.get = IF age > auth_timeout THEN "expire"
                                            ELSE "respond"]
    /\ UNCHANGED <<clock, server, client>>
    /\ SrvUnchanged

\* the expired branch: both fields are cleared, 410
GtExpire ==
    /\ pc = "srv"
    /\ handler.get = "expire"
    /\ server' = [request_token |-> None, token_timestamp |-> None]
    /\ handler' = [handler EXCEPT !.get = "done", !.response = Response(410, None, None)]
    /\ UNCHANGED <<clock, client>>
    /\ SrvUnchanged

\* the success response is built from the fields as they are now;
\* self.token_timestamp.strftime raises on None and Flask answers 500
GtRespond ==
    /\ pc = "srv"
    /\ handler.get = "respond"
    /\ handler' = [handler EXCEPT
                      !.get = "done",
                      !.response = IF server.token_timestamp = None
                                   THEN Response(500, None, None)
                                   ELSE Response(200, server.request_token,
                                                 server.token_timestamp)]
    /\ UNCHANGED <<clock, server, client>>
    /\ SrvUnchanged

\* handle_callback: the user has completed the current login; the request
\* token of that login is stored ("self.request_token = request_token")
CbStoreToken ==
    /\ pc = "srv"
    /\ handler.cb = "idle"
    /\ client.login >= 1
    /\ IF handler.cb_token = None THEN TRUE ELSE handler.cb_token.login < client.login
    /\ server' = [server EXCEPT !.request_token = [login |-> client.login]]
    /\ handler' = [handler EXCEPT !.cb = "stamp", !.cb_token = [login |-> client.login]]
    /\ UNCHANGED <<clock, client>>
    /\ SrvUnchanged

\* handle_callback: "self.token_timestamp = datetime.now(self.ist_tz)"
CbStoreStamp ==
    /\ pc = "srv"
    /\ handler.cb = "stamp"
    /\ server' = [server EXCEPT !.token_timestamp = [at |-> clock]]
    /\ handler' = [handler EXCEPT !.cb = "idle"]
    /\ UNCHANGED <<clock, client>>
    /\ SrvUnchanged

NextSrv ==
    \/ SrvTick
    \/ CliSendLink
    \/ CliPoll
    \/ CliTimeout
    \/ CliReceive
    \/ GtCheck
    \/ GtAge
    \/ GtExpire
    \/ GtRespond
    \/ CbStoreToken
    \/ CbStoreStamp

SpecSrv == InitSrv /\ [][NextSrv]_vars

\* C31: every get_token request is answered 404, 410 or success, and a
\* success carries the stored request token.
C31_ThreeOutcomes ==
    handler.response # None =>
        /\ handler.response.code \in {404, 410, 200}
        /\ handler.response.code = 200 => handler.response.request_token # None

\* C38: wait_for_request_token returns only a request token of the login
\* whose link was sent last, and does not end with "expired" on a token
\* stored before that link was sent.
C38_TokenOfCurrentLogin ==
    /\ client.pc = "returned" =>
          (client.result # None /\ client.result.login = client.login)
    /\ client.pc = "expired" =>
          (handler.stamp # None /\ handler.stamp.at >= client.sent_at)

----------------------------------------------------------------------------
(* DataManager.get_next_expiry and days_to_expiry.  A date is a day index; *)
(* day 0 is a Thursday, as in Weekdays.                                     *)

\* date.weekday(): 0 is Monday, 6 is Sunday
weekday(d) == (d + 3) % 7

Instruments == {"SENSEX", "NIFTY"}

expiry_weekday(instrument) == IF instrument = "SENSEX" THEN 3 ELSE 1

\* "while expiry in holidays: expiry -= timedelta(days=1)"
RECURSIVE BeforeHolidays(_, _)
BeforeHolidays(expiry, holidays) ==
    IF expiry \in holidays THEN BeforeHolidays(expiry - 1, holidays) ELSE expiry

get_next_expiry(from_date, instrument, holidays) ==
    LET d == expiry_weekday(instrument) - weekday(from_date)
        days_ahead == IF d <= 0 THEN d + 7 ELSE d
    IN  BeforeHolidays(from_date + days_ahead, holidays)

days_to_expiry(from_date, instrument, holidays) ==
    get_next_expiry(from_date, instrument, holidays) - from_date

\* get_itm_strike, strikes in points
get_itm_strike(atm_strike, option_type, day_to_expiry) ==
    LET itm_distance == IF day_to_expiry = 0 THEN 2 * strike_interval ELSE strike_interval
    IN  IF option_type = "CE" THEN atm_strike - itm_distance ELSE atm_strike + itm_distance

MaxDate == 13

\* config['market']['holidays']: none, one day, or two days in a row
HolidaySets ==
    {{}} \cup {{h} : h \in 0..(MaxDate + 7)} \cup {{h, h + 1} : h \in 0..(MaxDate + 6)}

InitExp ==
    /\ UnitIdle
    /\ pc = "exp_in"
    /\ unitIn \in [from_date : 0..MaxDate, instrument : Instruments, holidays : HolidaySets]
    /\ unitOut = None

ExpDays ==
    /\ pc = "exp_in"
    /\ pc' = "exp_out"
    /\ \E n \in {days_to_expiry(unitIn.from_date, unitIn.instrument, unitIn.holidays)} :
         unitOut' = [days |-> n,
                     itm_ce |-> get_itm_strike(80100, "CE", n),
                     itm_pe |-> get_itm_strike(80100, "PE", n)]
    /\ UNCHANGED unitIn
    /\ UnitUnchanged

NextExp == ExpDays

SpecExp == InitExp /\ [][NextExp]_vars

\* C33: on the weekly expiry weekday of the instrument, when that day is no
\* holiday, days_to_expiry is 0 and the ITM strike lies two intervals from ATM.
C33_ZeroOnExpiryDay ==
    (/\ pc = "exp_out"
     /\ weekday(unitIn.from_date) = expiry_weekday(unitIn.instrument)
     /\ unitIn.from_date \notin unitIn.holidays)
        => (/\ unitOut.days = 0
            /\ unitOut.itm_ce = 80100 - 2 * strike_interval
            /\ unitOut.itm_pe = 80100 + 2 * strike_interval)

============================================================================
